---------------------------- MODULE Spec2Model ----------------------------
(***************************************************************************)
(* Model of the tutorial-site crawler (gbe_crawler.py): the page-content   *)
(* extractor, the code-content resolver, the reconstruction writer and     *)
(* the crawl loop of GBECrawler.                                           *)
(*                                                                         *)
(* A Python str is a sequence of tokens.  A token is a run of characters   *)
(* without leading or trailing whitespace ("Check out the", "a.gno") or    *)
(* one whitespace character (" ", "\n").  The footer tables below are the  *)
(* source's strings cut into such tokens, and every text the model feeds   *)
(* to the extractor is built from the same tokens, so that equality and    *)
(* substring tests on token sequences agree with Python's on characters.   *)
(***************************************************************************)
EXTENDS Integers, Sequences, FiniteSets, TLC

VARIABLES
    page,            \* the DOM the page handle currently shows
    content,         \* what extract_page_content returned for `page`
    out,             \* the f.write calls made so far, in order
    ppc,             \* position of the single-page pipeline
    pc,              \* position of main / GBECrawler.crawl
    nav_urls,        \* crawl: nav_urls
    idx,             \* crawl: position of `for url in nav_urls` (1-based)
    visited_urls,    \* self.visited_urls
    text_content,    \* self.text_content
    ordered_urls,    \* crawl: ordered_urls
    result,          \* the dict crawl returned, as a sequence of [url, content]
    launches,        \* number of p.chromium.launch() calls
    closes,          \* number of browser.close() calls
    gotos,           \* per tutorial URL, number of page.goto(url) calls
    failedUrls,      \* URLs for which a visit raised (history)
    okCode,          \* URLs with a visit that completed and found code (history)
    okEmpty,         \* URLs with a visit that completed and found no code (history)
    lastNav,         \* "none" | "goto" | "slept": what happened last of goto / sleep
    unpaced,         \* a tutorial goto followed a tutorial goto with no sleep between
    dpc,             \* position of docs_extractor.main
    sorted_files,    \* docs_extractor.main: the file paths of sorted_files, in order
    fidx,            \* position of `for file_path, ... in sorted_files` (1-based)
    safe_filename,   \* the local safe_filename: [bound, value]
    index,           \* the f.write calls on _index.txt, in order
    docs_written,    \* the names of the files written under docs/
    raisedAt         \* positions in sorted_files whose processing raised (history)

vars == <<page, content, out, ppc, pc, nav_urls, idx, visited_urls, text_content,
          ordered_urls, result, launches, closes, gotos, failedUrls, okCode,
          okEmpty, lastNav, unpaced, dpc, sorted_files, fidx, safe_filename, index,
          docs_written, raisedAt>>

docVars == <<dpc, sorted_files, fidx, safe_filename, index, docs_written, raisedAt>>

crawlVars == <<pc, nav_urls, idx, visited_urls, text_content, ordered_urls, result,
               launches, closes, gotos, failedUrls, okCode, okEmpty, lastNav, unpaced>>

-----------------------------------------------------------------------------
(* Bounds *)

MaxElems == 3        \* elements returned by the combined 'p.chakra-text, [role=tab]' query
MaxEditors == 2      \* editor instances returned by getEditorContent()
MaxNav == 3          \* navigation anchors on the base page

-----------------------------------------------------------------------------
(* Python str operations on token sequences *)

Min(S) == CHOOSE x \in S : \A y \in S : x <= y
Max(S) == CHOOSE x \in S : \A y \in S : x >= y

\* str.strip() with no argument removes leading and trailing whitespace.
IsSpace(ch) == ch \in {" ", "\n", "\t", "\r"}

Strip(s) ==
    LET keep == {i \in 1..Len(s) : ~IsSpace(s[i])}
    IN  IF keep = {} THEN <<>> ELSE SubSeq(s, Min(keep), Max(keep))

\* `sub in s` for two strs.
Contains(sub, s) ==
    \E i \in 0..(Len(s) - Len(sub)) : SubSeq(s, i + 1, i + Len(sub)) = sub

\* s.split('\n'): always at least one piece.
RECURSIVE SplitLines(_)
SplitLines(s) ==
    LET nl == {i \in 1..Len(s) : s[i] = "\n"}
    IN  IF nl = {} THEN <<s>>
        ELSE <<SubSeq(s, 1, Min(nl) - 1)>> \o SplitLines(SubSeq(s, Min(nl) + 1, Len(s)))

\* '\n'.join(lines)
RECURSIVE JoinLines(_)
JoinLines(lines) ==
    IF lines = <<>> THEN <<>>
    ELSE IF Len(lines) = 1 THEN lines[1]
    ELSE lines[1] \o <<"\n">> \o JoinLines(Tail(lines))

RECURSIVE Concat(_)
Concat(ss) == IF ss = <<>> THEN <<>> ELSE ss[1] \o Concat(Tail(ss))

\* Sequences over S of length at most n.
SeqUpTo(S, n) == UNION {[1..k -> S] : k \in 0..n}

\* A Python dict as a function; d[k] = v.
EmptyDict == <<>>
DictSet(d, k, v) == [x \in (DOMAIN d) \cup {k} |-> IF x = k THEN v ELSE d[x]]

-----------------------------------------------------------------------------
(* gbe_crawler.py, extract_page_content: the footer tables *)

footer_exact ==
    { <<"Gno by Example", " ", "is a community project.">>,
      <<"Check out the", " ", "GitHub", " ", "repo.">>,
      <<"Learn more about Gno", ".land and">>,
      <<"be part of the conversation:">>,
      <<"Check out the", " ", "full example", " ", "here.">> }

footer_partial ==
    { <<"Check out the", " ", "full example">>,
      <<"Gno by Example">>,
      <<"Check out the", " ", "GitHub">>,
      <<"Learn more about Gno">> }


-----------------------------------------------------------------------------
(* The DOM as the page handle shows it.                                    *)
(*   element: [role, has_p, label, segs]                                   *)
(*     role   "tab" for a [role=tab] element, "p" for a p.chakra-text      *)
(*     has_p  whether elem.query_selector("p") finds a label element       *)
(*     label  that label's inner_text()                                    *)
(*     segs   the children of a text element: text runs, <br>, anchors     *)
(*   seg: [kind, s, href]  kind "text" | "br" | "a"; s the visible text;   *)
(*     href the anchor's href attribute, <<>> when missing                 *)

TextSeg(s) == [kind |-> "text", s |-> s, href |-> <<>>]
BrSeg == [kind |-> "br", s |-> <<>>, href |-> <<>>]
LinkSeg(s, href) == [kind |-> "a", s |-> s, href |-> href]

TabElem(label) == [role |-> "tab", has_p |-> TRUE, label |-> label, segs |-> <<>>]
BareTabElem == [role |-> "tab", has_p |-> FALSE, label |-> <<>>, segs |-> <<>>]
TextElem(segs) == [role |-> "p", has_p |-> FALSE, label |-> <<>>, segs |-> segs]

\* elem.inner_text(): the rendered text; a <br> renders as a line break.
SegInnerText(seg) == IF seg.kind = "br" THEN <<"\n">> ELSE seg.s

InnerText(elem) ==
    Concat([i \in 1..Len(elem.segs) |-> SegInnerText(elem.segs[i])])

\* One child after the replace of line 207 and get_text() of line 210: an anchor
\* with text and href has become "[text](href)", any other tag is dropped and
\* leaves its text (a <br> has none).
SegFlattened(seg) ==
    IF seg.kind = "a" /\ seg.href # <<>> /\ seg.s # <<>>
    THEN <<"[">> \o seg.s \o <<"](">> \o seg.href \o <<")">>
    ELSE seg.s

extract_text_with_links(elem) ==
    LET text == Strip(InnerText(elem))
        links == {i \in 1..Len(elem.segs) : elem.segs[i].kind = "a"}
    IN  IF text = <<>> THEN <<>>
        ELSE IF links = {} THEN text
        ELSE Strip(Concat([i \in 1..Len(elem.segs) |-> SegFlattened(elem.segs[i])]))

-----------------------------------------------------------------------------
(* extract_page_content, lines 77-144: title and content blocks.           *)
(* A content block is [type, content, src]: the tuple (type, content) of   *)
(* the source, and in src the positions in `elements` of the elements the  *)
(* block was built from (history, one per line of a text block).           *)

\* Lines 78-79.
PageTitle(pg) == IF pg.title_elem.present THEN pg.title_elem.text ELSE <<"Untitled">>

\* elem.query_selector("p").inner_text() (lines 109, 123): an AttributeError
\* when the query finds nothing.
TabLabelRaises(elem) == ~elem.has_p

\* Lines 107-110: the set of tab labels.
PreScanFilenames(elements) ==
    {elements[i].label : i \in {j \in 1..Len(elements) : elements[j].role = "tab"}}

\* Lines 116-121 and 140-144: the pending lines, without those equal to a filename,
\* become one text block when any is left.
FlushText(current_text, filenames, content_blocks) ==
    LET filtered == SelectSeq(current_text, LAMBDA l : l.text \notin filenames)
    IN  IF current_text # <<>> /\ filtered # <<>>
        THEN Append(content_blocks,
                    [type |-> "text",
                     content |-> JoinLines([k \in 1..Len(filtered) |-> filtered[k].text]),
                     src |-> [k \in 1..Len(filtered) |-> filtered[k].idx]])
        ELSE content_blocks

\* A tab step that adds the code marker before it flushes the pending text.
TabStepMarkerFirst(st, elem, i, filenames) ==
    [current_text |-> <<>>,
     content_blocks |->
        FlushText(st.current_text, filenames,
                  Append(st.content_blocks,
                         [type |-> "code", content |-> elem.label, src |-> <<i>>]))]

\* Lines 114-124: a tab flushes the pending text, then adds its code marker.
TabStep(st, elem, i, filenames) ==
    [current_text |-> <<>>,
     content_blocks |->
        Append(FlushText(st.current_text, filenames, st.content_blocks),
               [type |-> "code", content |-> elem.label, src |-> <<i>>])]

\* Lines 128-136: whether a flattened text is skipped.
SkipText(text, title) ==
    \/ text = <<>>
    \/ text = title
    \/ text \in footer_exact
    \/ \E footer \in footer_partial : Contains(footer, text)

\* Lines 126-137.
TextStep(st, elem, i, title) ==
    LET text == extract_text_with_links(elem)
    IN  IF SkipText(text, title) THEN st
        ELSE [st EXCEPT !.current_text = Append(@, [text |-> text, idx |-> i])]

\* Lines 113-137: the pass over the elements from position i on.
RECURSIVE ProcessElements(_, _, _, _, _)
ProcessElements(elements, i, st, title, filenames) ==
    IF i > Len(elements) THEN st
    ELSE ProcessElements(elements, i + 1,
            IF elements[i].role = "tab"
            THEN TabStep(st, elements[i], i, filenames)
            ELSE TextStep(st, elements[i], i, title),
            title, filenames)

\* Lines 99-144.
ContentBlocks(pg) ==
    LET filenames == PreScanFilenames(pg.elements)
        st == ProcessElements(pg.elements, 1,
                              [current_text |-> <<>>, content_blocks |-> <<>>],
                              PageTitle(pg), filenames)
    IN  FlushText(st.current_text, filenames, st.content_blocks)

-----------------------------------------------------------------------------
(* extract_page_content, lines 146-176: the code contents.                 *)
(* pg.editor is [raises, contents]: raises when wait_for_selector times    *)
(* out or an evaluate call fails, else contents is what getEditorContent() *)
(* returned, one str per editor.                                           *)

\* Lines 161-166: the labels of the tabs that have one, in document order.
TabFilenames(elements) ==
    LET tabs == SelectSeq(elements, LAMBDA e : e.role = "tab" /\ e.has_p)
    IN  [k \in 1..Len(tabs) |-> tabs[k].label]

\* A zip that lines the two lists up at their ends.
ZipFromEnd(filenames, contents) ==
    LET n == Min({Len(filenames), Len(contents)})
    IN  [k \in 1..n |-> <<filenames[Len(filenames) - n + k], contents[k]>>]

\* zip(filenames, contents): pairs by position, as many as the shorter list has.
Zip(filenames, contents) ==
    [k \in 1..Min({Len(filenames), Len(contents)}) |-> <<filenames[k], contents[k]>>]

\* Lines 172-174, over the pairs from position k on.
RECURSIVE StorePairs(_, _, _)
StorePairs(pairs, k, code_contents) ==
    IF k > Len(pairs) THEN code_contents
    ELSE StorePairs(pairs, k + 1,
            IF pairs[k][2] # <<>> /\ Strip(pairs[k][2]) # <<>>
            THEN DictSet(code_contents, pairs[k][1], Strip(pairs[k][2]))
            ELSE code_contents)

\* Lines 147-176.
CodeContents(pg) ==
    IF pg.editor.raises THEN EmptyDict
    ELSE StorePairs(Zip(TabFilenames(pg.elements), pg.editor.contents), 1, EmptyDict)

\* extract_page_content: raised when a tab without label made line 109 raise,
\* otherwise the returned dict.
NoContent == [raised |-> FALSE, title |-> <<>>, content_blocks |-> <<>>,
              code_contents |-> EmptyDict]

extract_page_content(pg) ==
    IF \E i \in 1..Len(pg.elements) :
            pg.elements[i].role = "tab" /\ TabLabelRaises(pg.elements[i])
    THEN [NoContent EXCEPT !.raised = TRUE]
    ELSE [raised |-> FALSE,
          title |-> PageTitle(pg),
          content_blocks |-> ContentBlocks(pg),
          code_contents |-> CodeContents(pg)]

-----------------------------------------------------------------------------
(* format_code_block and the writer loop of main, lines 266-316.           *)
(* A write is [block, data]: data is the str handed to f.write, block the  *)
(* position in content_blocks of the block it was written for (history; 0  *)
(* for the page's header and closing rule).                                *)

GBE_URL == <<"https://gno-by-example.com">>
\* The three backquotes that open and close a fenced block (lines 312, 314).
Fence == <<"(3 backquotes)">>

Rule == <<"--------------------------------------------------------------------------------">>

RECURSIVE DropLeadingBlank(_)
DropLeadingBlank(lines) ==
    IF lines # <<>> /\ Strip(lines[1]) = <<>> THEN DropLeadingBlank(Tail(lines)) ELSE lines

RECURSIVE DropTrailingBlank(_)
DropTrailingBlank(lines) ==
    IF lines # <<>> /\ Strip(lines[Len(lines)]) = <<>>
    THEN DropTrailingBlank(SubSeq(lines, 1, Len(lines) - 1))
    ELSE lines

\* A format_code_block that also drops the blank lines inside the code.
format_code_block_dense(code) ==
    JoinLines(SelectSeq(SplitLines(code), LAMBDA l : Strip(l) # <<>>))

\* Lines 266-274.
format_code_block(code) ==
    JoinLines(DropTrailingBlank(DropLeadingBlank(SplitLines(code))))

\* Lines 306-314: the writes for block b of a page.
WriteBlock(page_content, b) ==
    LET blk == page_content.content_blocks[b]
    IN  IF blk.type = "text"
        THEN << [block |-> b, data |-> blk.content \o <<"\n", "\n">>] >>
        ELSE IF blk.content \in DOMAIN page_content.code_contents
        THEN << [block |-> b, data |-> <<"File: ">> \o blk.content \o <<"\n">>],
                [block |-> b, data |-> Fence \o <<"\n">>],
                [block |-> b,
                 data |-> format_code_block(page_content.code_contents[blk.content])
                          \o <<"\n">>],
                [block |-> b, data |-> Fence \o <<"\n", "\n">>] >>
        ELSE <<>>

\* Lines 300-316: the writes for one page of the crawl result.
WritePage(url, page_content) ==
    << [block |-> 0, data |-> <<"# ">> \o page_content.title \o <<"\n">>],
       [block |-> 0, data |-> <<"URL: ">> \o url \o <<"\n">>],
       [block |-> 0, data |-> Rule \o <<"\n", "\n">>] >>
    \o Concat([b \in 1..Len(page_content.content_blocks) |-> WriteBlock(page_content, b)])
    \o << [block |-> 0, data |-> Rule \o <<"\n", "\n">>] >>

\* A store of every extracted page.
ShouldStoreAlways(page_content) == TRUE

\* Line 250: only pages with code are stored, and so written.
ShouldStore(page_content) == page_content.code_contents # EmptyDict

-----------------------------------------------------------------------------
(* One page through the extractor and the writer.                          *)

Filenames == { <<"a.gno">>, <<"b.gno">>, <<"c.gno">> }

\* Text elements: prose, a blank paragraph, an echo of the title, an echo of a tab
\* label, a footer line, a paragraph of two lines (<br>) and one with a link.
TextPool ==
    { TextElem(<< TextSeg(<<"Intro">>) >>),
      TextElem(<< TextSeg(<<" ">>) >>),
      TextElem(<< TextSeg(<<"Hello">>) >>),
      TextElem(<< TextSeg(<<"a.gno">>) >>),
      TextElem(<< TextSeg(<<"Check out the", " ", "GitHub", " ", "repo.">>) >>),
      TextElem(<< TextSeg(<<"Join us and">>), BrSeg,
                  TextSeg(<<"be part of the conversation:">>) >>),
      TextElem(<< TextSeg(<<"See", " ">>), LinkSeg(<<"docs">>, <<"/x">>) >>) }

\* Editor buffers: empty, blank, one line, with blank lines around, with a blank
\* line inside, indented, with an indented line and a final line break.
CodePool ==
    { <<>>,
      <<" ", "\n">>,
      <<"package main">>,
      <<"\n", "package main", "\n">>,
      <<"package main", "\n", "\n", "func main() {}">>,
      <<" ", "\n", " ", "package main", " ">>,
      <<"package main", "\n", "\t", "func main() {}", "\n">> }

TitlePool == { [present |-> FALSE, text |-> <<>>], [present |-> TRUE, text |-> <<"Hello">>] }

\* Pages rich in prose: any mix of texts and tabs (a tab may lack its label),
\* the editors holding the same one-line buffer.
ProsePages ==
    { [title_elem |-> t, elements |-> es, editor |-> ed] :
        t \in TitlePool,
        es \in SeqUpTo(TextPool \cup {TabElem(<<"a.gno">>), TabElem(<<"b.gno">>), BareTabElem},
                       MaxElems),
        ed \in {[raises |-> TRUE, contents |-> <<>>]}
               \cup {[raises |-> FALSE, contents |-> cs] :
                        cs \in SeqUpTo({<<"package main">>}, MaxEditors)} }

\* Pages rich in code: labelled tabs and plain prose, any editor buffers.
CodePages ==
    { [title_elem |-> [present |-> TRUE, text |-> <<"Hello">>],
       elements |-> es, editor |-> ed] :
        es \in SeqUpTo({TabElem(f) : f \in Filenames}
                       \cup {TextElem(<< TextSeg(<<"Intro">>) >>)}, MaxElems),
        ed \in {[raises |-> TRUE, contents |-> <<>>]}
               \cup {[raises |-> FALSE, contents |-> cs] :
                        cs \in SeqUpTo(CodePool, MaxEditors)} }

PageUrl == GBE_URL \o <<"/tutorials/hello-world">>

\* docs_extractor.main not running.
DocIdle ==
    /\ dpc = "idle"
    /\ sorted_files = <<>>
    /\ fidx = 0
    /\ safe_filename = [bound |-> FALSE, value |-> <<>>]
    /\ index = <<>>
    /\ docs_written = {}
    /\ raisedAt = {}

CrawlIdle ==
    /\ pc = "idle"
    /\ nav_urls = <<>>
    /\ idx = 0
    /\ visited_urls = {}
    /\ text_content = EmptyDict
    /\ ordered_urls = <<>>
    /\ result = <<>>
    /\ launches = 0
    /\ closes = 0
    /\ gotos = EmptyDict
    /\ failedUrls = {}
    /\ okCode = {}
    /\ okEmpty = {}
    /\ lastNav = "none"
    /\ unpaced = FALSE

PageInit ==
    /\ page \in ProsePages \cup CodePages
    /\ content = NoContent
    /\ out = <<>>
    /\ ppc = "loaded"
    /\ CrawlIdle
    /\ DocIdle

\* crawl, line 249, on a page that extracts.
PageExtract ==
    /\ ppc = "loaded"
    /\ ~extract_page_content(page).raised
    /\ content' = extract_page_content(page)
    /\ ppc' = "extracted"
    /\ UNCHANGED <<page, out>>
    /\ UNCHANGED crawlVars
    /\ UNCHANGED docVars

\* crawl, lines 249 and 257-259, on a page whose extraction raises.
PageExtractRaises ==
    /\ ppc = "loaded"
    /\ extract_page_content(page).raised
    /\ content' = extract_page_content(page)
    /\ ppc' = "raised"
    /\ UNCHANGED <<page, out>>
    /\ UNCHANGED crawlVars
    /\ UNCHANGED docVars

\* main, lines 299-316, for a page that crawl stored.
PageWrite ==
    /\ ppc = "extracted"
    /\ ShouldStore(content)
    /\ out' = WritePage(PageUrl, content)
    /\ ppc' = "written"
    /\ UNCHANGED <<page, content>>
    /\ UNCHANGED crawlVars
    /\ UNCHANGED docVars

PageNext == PageExtract \/ PageExtractRaises \/ PageWrite

SpecPage == PageInit /\ [][PageNext]_vars

-----------------------------------------------------------------------------
(* main and GBECrawler.crawl, lines 227-264 and 286-322.                   *)

\* The href attributes the anchors matched by a[href^='/tutorials/'] can carry.
Hrefs == { <<"/tutorials/hello-world">>, <<"/tutorials/counter">> }

\* urljoin(self.base_url, href) for an absolute path: the base's origin, then the path.
urljoin(base_url, href) == base_url \o href

TutorialUrls == {urljoin(GBE_URL, h) : h \in Hrefs}

\* Lines 213-225: one URL per anchor that has an href, in document order.
get_navigation_urls(nav_items) ==
    LET with_href == SelectSeq(nav_items, LAMBDA href : href # <<>>)
    IN  [k \in 1..Len(with_href) |-> urljoin(GBE_URL, with_href[k])]

\* What a tutorial page can show once loaded: prose, a tab and its code; prose
\* only, no editor attaching; a tab without a label element.
BlankPage == [title_elem |-> [present |-> FALSE, text |-> <<>>], elements |-> <<>>,
              editor |-> [raises |-> TRUE, contents |-> <<>>]]

CrawlPages ==
    { [title_elem |-> [present |-> TRUE, text |-> <<"Hello">>],
       elements |-> << TextElem(<< TextSeg(<<"Intro">>) >>), TabElem(<<"a.gno">>) >>,
       editor |-> [raises |-> FALSE, contents |-> << <<"package main">> >>]],
      [title_elem |-> [present |-> TRUE, text |-> <<"Hello">>],
       elements |-> << TextElem(<< TextSeg(<<"Intro">>) >>) >>,
       editor |-> [raises |-> TRUE, contents |-> <<>>]],
      [title_elem |-> [present |-> TRUE, text |-> <<"Hello">>],
       elements |-> << BareTabElem >>,
       editor |-> [raises |-> FALSE, contents |-> <<>>]] }

\* Line 264: {url: self.text_content[url] for url in ordered_urls}; a dict keeps a
\* key at the place of its first insertion.
CrawlReturn(ordered, contents) ==
    LET first == SelectSeq([k \in 1..Len(ordered) |-> k],
                           LAMBDA k : \A j \in 1..(k - 1) : ordered[j] # ordered[k])
    IN  [k \in 1..Len(first) |->
            [url |-> ordered[first[k]], content |-> contents[ordered[first[k]]]]]

\* Lines 296-316: the writes of main for a crawl result.
WriteArtifact(res) ==
    << [block |-> 0, data |-> <<"Crawled ", ToString(Len(res)), " pages from ">>
                              \o GBE_URL \o <<"\n">>],
       [block |-> 0, data |-> Rule \o <<"\n", "\n">>] >>
    \o Concat([k \in 1..Len(res) |-> WritePage(res[k].url, res[k].content)])

Init ==
    /\ page = BlankPage
    /\ content = NoContent
    /\ out = <<>>
    /\ ppc = "crawl"
    /\ pc = "start"
    /\ nav_urls = <<>>
    /\ idx = 0
    /\ visited_urls = {}
    /\ text_content = EmptyDict
    /\ ordered_urls = <<>>
    /\ result = <<>>
    /\ launches = 0
    /\ closes = 0
    /\ gotos = [u \in TutorialUrls |-> 0]
    /\ failedUrls = {}
    /\ okCode = {}
    /\ okEmpty = {}
    /\ lastNav = "none"
    /\ unpaced = FALSE
    /\ DocIdle

\* Lines 229-230.
Launch ==
    /\ pc = "start"
    /\ launches' = launches + 1
    /\ pc' = "goto_base"
    /\ UNCHANGED <<page, content, out, ppc, nav_urls, idx, visited_urls, text_content,
                   ordered_urls, result, closes, gotos, failedUrls, okCode, okEmpty,
                   lastNav, unpaced>>
    /\ UNCHANGED docVars

\* Line 234, the base page loads.
GotoBase ==
    /\ pc = "goto_base"
    /\ pc' = "get_nav"
    /\ UNCHANGED <<page, content, out, ppc, nav_urls, idx, visited_urls, text_content,
                   ordered_urls, result, launches, closes, gotos, failedUrls, okCode,
                   okEmpty, lastNav, unpaced>>
    /\ UNCHANGED docVars

\* Line 234 or 235 raises: nothing in crawl catches it, the exception leaves crawl
\* through the with block.
BaseRaises ==
    /\ pc \in {"goto_base", "get_nav"}
    /\ pc' = "crawl_raised"
    /\ UNCHANGED <<page, content, out, ppc, nav_urls, idx, visited_urls, text_content,
                   ordered_urls, result, launches, closes, gotos, failedUrls, okCode,
                   okEmpty, lastNav, unpaced>>
    /\ UNCHANGED docVars

\* Lines 235-237.
GetNavigationUrls ==
    /\ pc = "get_nav"
    /\ \E nav_items \in SeqUpTo(Hrefs, MaxNav) :
          nav_urls' = get_navigation_urls(nav_items)
    /\ idx' = 1
    /\ pc' = "loop"
    /\ UNCHANGED <<page, content, out, ppc, visited_urls, text_content, ordered_urls,
                   result, launches, closes, gotos, failedUrls, okCode, okEmpty,
                   lastNav, unpaced>>
    /\ UNCHANGED docVars

\* Lines 240-242: a URL already in visited_urls is passed over.
SkipVisited ==
    /\ pc = "loop"
    /\ idx <= Len(nav_urls)
    /\ nav_urls[idx] \in visited_urls
    /\ idx' = idx + 1
    /\ UNCHANGED <<page, content, out, ppc, pc, nav_urls, visited_urls, text_content,
                   ordered_urls, result, launches, closes, gotos, failedUrls, okCode,
                   okEmpty, lastNav, unpaced>>
    /\ UNCHANGED docVars

\* Line 246, the page loads.
Goto ==
    /\ pc = "loop"
    /\ idx <= Len(nav_urls)
    /\ nav_urls[idx] \notin visited_urls
    /\ gotos' = [gotos EXCEPT ![nav_urls[idx]] = @ + 1]
    /\ unpaced' = (unpaced \/ lastNav = "goto")
    /\ lastNav' = "goto"
    /\ page' \in CrawlPages
    /\ pc' = "extract"
    /\ UNCHANGED <<content, out, ppc, nav_urls, idx, visited_urls, text_content,
                   ordered_urls, result, launches, closes, failedUrls, okCode, okEmpty>>
    /\ UNCHANGED docVars

\* Line 246 raises; lines 257-259 go on with the next URL.
GotoRaises ==
    /\ pc = "loop"
    /\ idx <= Len(nav_urls)
    /\ nav_urls[idx] \notin visited_urls
    /\ gotos' = [gotos EXCEPT ![nav_urls[idx]] = @ + 1]
    /\ unpaced' = (unpaced \/ lastNav = "goto")
    /\ lastNav' = "goto"
    /\ failedUrls' = failedUrls \cup {nav_urls[idx]}
    /\ idx' = idx + 1
    /\ UNCHANGED <<page, content, out, ppc, pc, nav_urls, visited_urls, text_content,
                   ordered_urls, result, launches, closes, okCode, okEmpty>>
    /\ UNCHANGED docVars

\* Lines 249-255: the page extracts; it is stored when it has code, marked
\* visited, and the delay is slept.
Extract ==
    /\ pc = "extract"
    /\ ~extract_page_content(page).raised
    /\ LET url == nav_urls[idx]
           c == extract_page_content(page)
       IN  /\ content' = c
           /\ IF ShouldStore(c)
              THEN /\ text_content' = DictSet(text_content, url, c)
                   /\ ordered_urls' = Append(ordered_urls, url)
              ELSE UNCHANGED <<text_content, ordered_urls>>
           /\ visited_urls' = visited_urls \cup {url}
           /\ okCode' = IF c.code_contents # EmptyDict THEN okCode \cup {url} ELSE okCode
           /\ okEmpty' = IF c.code_contents = EmptyDict THEN okEmpty \cup {url} ELSE okEmpty
    /\ lastNav' = "slept"
    /\ idx' = idx + 1
    /\ pc' = "loop"
    /\ UNCHANGED <<page, out, ppc, nav_urls, result, launches, closes, gotos,
                   failedUrls, unpaced>>
    /\ UNCHANGED docVars

\* Line 249 raises; lines 257-259 go on with the next URL.
ExtractRaises ==
    /\ pc = "extract"
    /\ extract_page_content(page).raised
    /\ failedUrls' = failedUrls \cup {nav_urls[idx]}
    /\ idx' = idx + 1
    /\ pc' = "loop"
    /\ UNCHANGED <<page, content, out, ppc, nav_urls, visited_urls, text_content,
                   ordered_urls, result, launches, closes, gotos, okCode, okEmpty,
                   lastNav, unpaced>>
    /\ UNCHANGED docVars

\* Line 261, after the last URL.
Close ==
    /\ pc = "loop"
    /\ idx > Len(nav_urls)
    /\ closes' = closes + 1
    /\ pc' = "closed"
    /\ UNCHANGED <<page, content, out, ppc, nav_urls, idx, visited_urls, text_content,
                   ordered_urls, result, launches, gotos, failedUrls, okCode, okEmpty,
                   lastNav, unpaced>>
    /\ UNCHANGED docVars

\* Line 264.
Return ==
    /\ pc = "closed"
    /\ result' = CrawlReturn(ordered_urls, text_content)
    /\ pc' = "returned"
    /\ UNCHANGED <<page, content, out, ppc, nav_urls, idx, visited_urls, text_content,
                   ordered_urls, launches, closes, gotos, failedUrls, okCode, okEmpty,
                   lastNav, unpaced>>
    /\ UNCHANGED docVars

\* main, lines 291-319.
MainWrite ==
    /\ pc = "returned"
    /\ out' = WriteArtifact(result)
    /\ pc' = "done"
    /\ UNCHANGED <<page, content, ppc, nav_urls, idx, visited_urls, text_content,
                   ordered_urls, result, launches, closes, gotos, failedUrls, okCode,
                   okEmpty, lastNav, unpaced>>
    /\ UNCHANGED docVars

\* main, lines 321-322: the exception that left crawl is caught and printed.
MainCatch ==
    /\ pc = "crawl_raised"
    /\ pc' = "failed"
    /\ UNCHANGED <<page, content, out, ppc, nav_urls, idx, visited_urls, text_content,
                   ordered_urls, result, launches, closes, gotos, failedUrls, okCode,
                   okEmpty, lastNav, unpaced>>
    /\ UNCHANGED docVars

Next ==
    \/ Launch
    \/ GotoBase
    \/ BaseRaises
    \/ GetNavigationUrls
    \/ SkipVisited
    \/ Goto
    \/ GotoRaises
    \/ Extract
    \/ ExtractRaises
    \/ Close
    \/ Return
    \/ MainWrite
    \/ MainCatch

Spec == Init /\ [][Next]_vars

-----------------------------------------------------------------------------
(* docs_extractor.py, main, lines 87-162: the index of the documentation.  *)
(* A write on _index.txt is [pos, data]: data is the str handed to         *)
(* f.write, pos the position in sorted_files of the file being processed   *)
(* when it was made (history; 0 for the header).                           *)

\* The relative paths extract_github_content can return, listed in the order
\* sorted() gives them by the key (folder, path) of line 107: "concepts" <
\* "how-to-guides" < "root".
DocPool ==
    << <<"concepts", "/", "packages.md">>,
       <<"concepts", "/", "realms.md">>,
       <<"how-to-guides", "/", "deploy.md">>,
       <<"README.md">> >>

\* Lines 72-73: the parent folder of a relative path, 'root' for a file at the top.
DocFolder(path) ==
    LET slashes == {i \in 1..Len(path) : path[i] = "/"}
    IN  IF slashes = {} THEN <<"root">> ELSE SubSeq(path, 1, Max(slashes) - 1)

\* Line 107: sorted(md_contents.items(), key=(folder, path)) for the files of
\* DocPool at the positions in S.
SortedFiles(S) == SelectSeq(DocPool, LAMBDA path : \E i \in S : DocPool[i] = path)

\* Line 138: file_path.replace('/', '_').
SafeFilename(path) == [i \in 1..Len(path) |-> IF path[i] = "/" THEN "_" ELSE path[i]]

\* What response.choices[0].message.content can be.
KeywordReplies == { <<"realms", ",", " ", "packages">>, <<" ", "gno.land", "\n">> }

\* Lines 141 and 156: one line of the index.
IndexLine(name, text) == name \o <<" ", "|", " ">> \o text \o <<"\n">>

ErrorText == <<"Error extracting keywords">>

\* Lines 112-116.
IndexHeader(n) ==
    << [pos |-> 0, data |-> <<"Found ", ToString(n),
                              " markdown files from Gno documentation", "\n">>],
       [pos |-> 0, data |-> <<"Source: https://docs.gno.land", "\n">>],
       [pos |-> 0, data |-> Rule \o <<"\n", "\n">>],
       [pos |-> 0, data |-> <<"File Name | Keywords", "\n">>],
       [pos |-> 0, data |-> Rule \o <<"\n">>] >>

DocInit ==
    /\ page = BlankPage
    /\ content = NoContent
    /\ out = <<>>
    /\ ppc = "idle"
    /\ CrawlIdle
    /\ dpc = "start"
    /\ sorted_files = <<>>
    /\ fidx = 0
    /\ safe_filename = [bound |-> FALSE, value |-> <<>>]
    /\ index = <<>>
    /\ docs_written = {}
    /\ raisedAt = {}

\* Lines 93-97: no markdown file was retrieved, main returns.
DocNoFiles ==
    /\ dpc = "start"
    /\ dpc' = "no_files"
    /\ UNCHANGED <<sorted_files, fidx, safe_filename, index, docs_written, raisedAt>>
    /\ UNCHANGED <<page, content, out, ppc>>
    /\ UNCHANGED crawlVars

\* Lines 93-116: the files are sorted and the header of the index is written.
DocOpenIndex ==
    /\ dpc = "start"
    /\ \E S \in (SUBSET (1..Len(DocPool))) \ {{}} :
          /\ sorted_files' = SortedFiles(S)
          /\ index' = IndexHeader(Cardinality(S))
    /\ dpc' = "client"
    /\ UNCHANGED <<fidx, safe_filename, docs_written, raisedAt>>
    /\ UNCHANGED <<page, content, out, ppc>>
    /\ UNCHANGED crawlVars

\* Line 119.
DocClient ==
    /\ dpc = "client"
    /\ fidx' = 1
    /\ dpc' = "loop"
    /\ UNCHANGED <<sorted_files, safe_filename, index, docs_written, raisedAt>>
    /\ UNCHANGED <<page, content, out, ppc>>
    /\ UNCHANGED crawlVars

\* Line 119 raises (no API key); lines 161-162 catch it and main ends.
DocClientRaises ==
    /\ dpc = "client"
    /\ dpc' = "failed"
    /\ UNCHANGED <<sorted_files, fidx, safe_filename, index, docs_written, raisedAt>>
    /\ UNCHANGED <<page, content, out, ppc>>
    /\ UNCHANGED crawlVars

\* Lines 121-151: a file is processed without an exception.
DocProcess ==
    /\ dpc = "loop"
    /\ fidx <= Len(sorted_files)
    /\ \E reply \in KeywordReplies :
          LET keywords == Strip(reply)
              name == SafeFilename(sorted_files[fidx])
          IN  /\ safe_filename' = [bound |-> TRUE, value |-> name]
              /\ index' = Append(index, [pos |-> fidx, data |-> IndexLine(name, keywords)])
              /\ docs_written' = docs_written \cup {name}
    /\ fidx' = fidx + 1
    /\ UNCHANGED <<dpc, sorted_files, raisedAt>>
    /\ UNCHANGED <<page, content, out, ppc>>
    /\ UNCHANGED crawlVars

\* Lines 125-135 raise (the keyword call fails) in an iteration that finds
\* safe_filename bound by an earlier one: line 156 writes the error line with the
\* value safe_filename holds, and the loop goes on.
DocKeywordsRaise ==
    /\ dpc = "loop"
    /\ fidx <= Len(sorted_files)
    /\ safe_filename.bound
    /\ index' = Append(index, [pos |-> fidx, data |-> IndexLine(safe_filename.value, ErrorText)])
    /\ raisedAt' = raisedAt \cup {fidx}
    /\ fidx' = fidx + 1
    /\ UNCHANGED <<dpc, sorted_files, safe_filename, docs_written>>
    /\ UNCHANGED <<page, content, out, ppc>>
    /\ UNCHANGED crawlVars

\* Lines 125-135 raise while safe_filename is not bound yet: line 156 raises
\* UnboundLocalError inside the handler, which leaves the loop and the with block;
\* lines 161-162 catch it and main ends.
DocKeywordsRaiseUnbound ==
    /\ dpc = "loop"
    /\ fidx <= Len(sorted_files)
    /\ ~safe_filename.bound
    /\ raisedAt' = raisedAt \cup {fidx}
    /\ dpc' = "failed"
    /\ UNCHANGED <<sorted_files, fidx, safe_filename, index, docs_written>>
    /\ UNCHANGED <<page, content, out, ppc>>
    /\ UNCHANGED crawlVars

\* Lines 144-148 raise (the file under docs/ cannot be opened or written): the
\* keywords line is in the index already and line 156 adds the error line.
DocFileWriteRaises ==
    /\ dpc = "loop"
    /\ fidx <= Len(sorted_files)
    /\ \E reply \in KeywordReplies, created \in BOOLEAN :
          LET keywords == Strip(reply)
              name == SafeFilename(sorted_files[fidx])
          IN  /\ safe_filename' = [bound |-> TRUE, value |-> name]
              /\ index' = index \o << [pos |-> fidx, data |-> IndexLine(name, keywords)],
                                      [pos |-> fidx, data |-> IndexLine(name, ErrorText)] >>
              /\ docs_written' = IF created THEN docs_written \cup {name} ELSE docs_written
    /\ raisedAt' = raisedAt \cup {fidx}
    /\ fidx' = fidx + 1
    /\ UNCHANGED <<dpc, sorted_files>>
    /\ UNCHANGED <<page, content, out, ppc>>
    /\ UNCHANGED crawlVars

\* Lines 158-159, after the last file.
DocFinish ==
    /\ dpc = "loop"
    /\ fidx > Len(sorted_files)
    /\ dpc' = "done"
    /\ UNCHANGED <<sorted_files, fidx, safe_filename, index, docs_written, raisedAt>>
    /\ UNCHANGED <<page, content, out, ppc>>
    /\ UNCHANGED crawlVars

DocNext ==
    \/ DocNoFiles
    \/ DocOpenIndex
    \/ DocClient
    \/ DocClientRaises
    \/ DocProcess
    \/ DocKeywordsRaise
    \/ DocKeywordsRaiseUnbound
    \/ DocFileWriteRaises
    \/ DocFinish

SpecDocs == DocInit /\ [][DocNext]_vars

-----------------------------------------------------------------------------
(* Properties of one page (SpecPage)                                       *)

Extracted == ppc \in {"extracted", "written"}

\* The positions in content_blocks of the code blocks, in order.
CodeBlockIdx ==
    SelectSeq([b \in 1..Len(content.content_blocks) |-> b],
              LAMBDA b : content.content_blocks[b].type = "code")

\* The writes made for block b, in order.
WritesOf(b) == SelectSeq(out, LAMBDA w : w.block = b)

\* The elements behind the blocks, block after block.
AllSrc == Concat([b \in 1..Len(content.content_blocks) |-> content.content_blocks[b].src])

\* C1: the block sequence preserves document order.  Reading the blocks in order,
\* and the lines of a text block in order, the elements they come from appear in
\* strictly increasing position of the element list; a code block holds the label
\* of its tab, and a text block holds the flattened texts of its elements, one per
\* line group, in element order.
C1_DocumentOrder ==
    Extracted =>
        /\ \A j \in 1..Len(AllSrc), k \in 1..Len(AllSrc) : j < k => AllSrc[j] < AllSrc[k]
        /\ \A b \in 1..Len(content.content_blocks) :
              LET blk == content.content_blocks[b]
              IN  /\ blk.src # <<>>
                  /\ blk.type = "code" =>
                        /\ Len(blk.src) = 1
                        /\ page.elements[blk.src[1]].role = "tab"
                        /\ blk.content = page.elements[blk.src[1]].label
                  /\ blk.type = "text" =>
                        /\ \A k \in 1..Len(blk.src) : page.elements[blk.src[k]].role = "p"
                        /\ blk.content =
                              JoinLines([k \in 1..Len(blk.src) |->
                                  extract_text_with_links(page.elements[blk.src[k]])])

\* A text block of two elements, then a code block.
C1_Witness ==
    /\ ppc = "extracted"
    /\ \E b \in 1..Len(content.content_blocks), c \in 1..Len(content.content_blocks) :
          /\ b < c
          /\ content.content_blocks[b].type = "text"
          /\ Len(content.content_blocks[b].src) >= 2
          /\ content.content_blocks[c].type = "code"

\* C2: once the page is written, a code block whose filename is a key of
\* code_contents got exactly the label, the fence, the code_contents entry itself
\* and the closing fence; a code block whose filename is no key got no write.
C2_CodeBodyOrOmitted ==
    ppc = "written" =>
        \A b \in 1..Len(content.content_blocks) :
            content.content_blocks[b].type = "code" =>
                LET filename == content.content_blocks[b].content
                IN  IF filename \in DOMAIN content.code_contents
                    THEN WritesOf(b) =
                            << [block |-> b, data |-> <<"File: ">> \o filename \o <<"\n">>],
                               [block |-> b, data |-> Fence \o <<"\n">>],
                               [block |-> b,
                                data |-> content.code_contents[filename] \o <<"\n">>],
                               [block |-> b, data |-> Fence \o <<"\n", "\n">>] >>
                    ELSE WritesOf(b) = <<>>

\* A written page with a resolved code block of several lines and an unresolved one.
C2_Witness ==
    /\ ppc = "written"
    /\ \E b \in 1..Len(content.content_blocks), c \in 1..Len(content.content_blocks) :
          /\ content.content_blocks[b].type = "code"
          /\ content.content_blocks[c].type = "code"
          /\ content.content_blocks[b].content \in DOMAIN content.code_contents
          /\ Len(SplitLines(content.code_contents[content.content_blocks[b].content])) > 1
          /\ content.content_blocks[c].content \notin DOMAIN content.code_contents

\* C3: no line of a written text block equals a footer_exact string or contains a
\* footer_partial string.
C3_NoFooterLine ==
    ppc = "written" =>
        \A k \in 1..Len(out) :
            (out[k].block > 0 /\ content.content_blocks[out[k].block].type = "text") =>
                \A line \in {SplitLines(out[k].data)[j] :
                                j \in 1..Len(SplitLines(out[k].data))} :
                    /\ line \notin footer_exact
                    /\ \A footer \in footer_partial : ~Contains(footer, line)

\* The case of C4: every tab labelled, the labels pairwise distinct, the editor
\* answering with fewer buffers than there are tabs, none of them blank.
FewerEditorsThanTabs ==
    LET fns == TabFilenames(page.elements)
        cs == page.editor.contents
    IN  /\ \A i \in 1..Len(page.elements) :
              page.elements[i].role = "tab" => page.elements[i].has_p
        /\ \A j \in 1..Len(fns), k \in 1..Len(fns) : j # k => fns[j] # fns[k]
        /\ ~page.editor.raises
        /\ Len(cs) < Len(fns)
        /\ \A i \in 1..Len(cs) : Strip(cs[i]) # <<>>

\* C4: with n distinct tabs and m < n non-blank editor contents, extraction does
\* not raise, code_contents maps exactly the first m filenames, the i-th to the
\* (trimmed) i-th editor content, and of the n code blocks the first m are written
\* with that content and the others are not written at all.
C4_PositionalMismatch ==
    FewerEditorsThanTabs =>
        LET fns == TabFilenames(page.elements)
            cs == page.editor.contents
        IN  /\ ppc # "raised"
            /\ Extracted =>
                  /\ DOMAIN content.code_contents = {fns[i] : i \in 1..Len(cs)}
                  /\ \A i \in 1..Len(cs) : content.code_contents[fns[i]] = Strip(cs[i])
                  /\ Len(CodeBlockIdx) = Len(fns)
                  /\ \A i \in 1..Len(fns) :
                        content.content_blocks[CodeBlockIdx[i]].content = fns[i]
            /\ ppc = "written" =>
                  \A i \in 1..Len(fns) :
                      IF i <= Len(cs)
                      THEN /\ Len(WritesOf(CodeBlockIdx[i])) = 4
                           /\ WritesOf(CodeBlockIdx[i])[3].data = Strip(cs[i]) \o <<"\n">>
                      ELSE WritesOf(CodeBlockIdx[i]) = <<>>

\* The spec's case: three tabs, two editor contents, the page written.
C4_Witness ==
    /\ ppc = "written"
    /\ FewerEditorsThanTabs
    /\ Len(TabFilenames(page.elements)) = 3
    /\ Len(page.editor.contents) = 2

\* C9: a DOM query that finds nothing never raises: without a b.chakra-text the
\* title is "Untitled", and a tab without a label element does not make
\* extract_page_content raise.
C9_QueryMissNeverRaises ==
    /\ (Extracted /\ ~page.title_elem.present) => content.title = <<"Untitled">>
    /\ (\E i \in 1..Len(page.elements) :
            page.elements[i].role = "tab" /\ ~page.elements[i].has_p)
        => ppc # "raised"

-----------------------------------------------------------------------------
(* Properties of a crawl (Spec)                                            *)

CrawlEnded == pc \in {"returned", "done", "crawl_raised", "failed"}
CrawlReturned == pc \in {"returned", "done"}

ResultKeys == {result[k].url : k \in 1..Len(result)}

\* The place of url u in the result, and of its first occurrence in nav_urls.
ResultPos(u) == Min({k \in 1..Len(result) : result[k].url = u})
FirstNavPos(u) == Min({k \in 1..Len(nav_urls) : nav_urls[k] = u})

\* C5: a URL whose visit raised does not stop the crawl and is no key of the
\* returned result: crawl never ends inside the loop, and once it has returned no
\* failed URL is among the keys.
C5_FailedUrlExcluded ==
    /\ (failedUrls # {} /\ CrawlEnded) => CrawlReturned
    /\ CrawlReturned => failedUrls \cap ResultKeys = {}

\* C6: the result is in navigation order: of two keys, the one whose first
\* occurrence in the navigation list is earlier comes first.
C6_NavigationOrder ==
    CrawlReturned =>
        \A u \in ResultKeys, v \in ResultKeys :
            (ResultPos(u) < ResultPos(v)) <=> (FirstNavPos(u) < FirstNavPos(v))

\* C7: no tutorial URL is navigated to more than once in a run.
C7_NoRetries == \A u \in TutorialUrls : gotos[u] <= 1

\* C8: whenever crawl has ended, normally or by an exception, the browser was
\* launched exactly once and closed exactly once.
C8_BrowserReleasedOnce == CrawlEnded => (launches = 1 /\ closes = 1)

\* C10 as claimed: every URL whose visit completed without raising is a key of the
\* returned result, exactly once, a page without code included.
C10_EveryVisitedUrlIsKey ==
    CrawlReturned =>
        \A u \in okCode \cup okEmpty :
            Cardinality({k \in 1..Len(result) : result[k].url = u}) = 1

\* C10 as amended: every URL whose visit completed without raising and found code
\* is a key of the returned result, exactly once, holding the extracted content;
\* a URL whose completed visit found no code is no key.
C10_VisitedUrlWithCodeIsKey ==
    CrawlReturned =>
        /\ \A u \in okCode :
              /\ Cardinality({k \in 1..Len(result) : result[k].url = u}) = 1
              /\ result[ResultPos(u)].content = text_content[u]
              /\ result[ResultPos(u)].content.code_contents # EmptyDict
        /\ \A u \in okEmpty : u \notin ResultKeys

\* A returned crawl that visited a page with code and a page without.
C10_Witness ==
    /\ pc = "returned"
    /\ okCode # {}
    /\ okEmpty # {}

\* C11: pacing: between any two consecutive navigations to tutorial pages the
\* delay is slept, whether the earlier visit succeeded or raised; no tutorial goto
\* follows a tutorial goto without a sleep between them.
C11_DelayBetweenVisits == ~unpaced

-----------------------------------------------------------------------------
(* Properties of the documentation index (SpecDocs)                        *)

\* The error lines written to the index while the file at position k was processed.
ErrorLinesOf(k) ==
    SelectSeq(index, LAMBDA w : w.pos = k /\ Contains(ErrorText, w.data))

\* C12: when processing the file at some position of sorted_files raises, the
\* index gets one line "<safe filename of that file> | Error extracting keywords"
\* and the loop goes on with the next file, whatever the position, the first
\* included.
C12_ErrorLineNamesFile ==
    \A k \in raisedAt :
        /\ dpc \in {"loop", "done"}
        /\ fidx > k
        /\ ErrorLinesOf(k) =
              << [pos |-> k,
                  data |-> IndexLine(SafeFilename(sorted_files[k]), ErrorText)] >>

=============================================================================
